---- MODULE Spec2Model ----
(***************************************************************************)
(* A model of github.com/davidmz/memcache: the connection loop and request *)
(* decoder of memcache.go and the command dispatcher of simplemmc/srv.go.  *)
(*                                                                         *)
(* A byte is a one-character string, a byte stream (the bytes a client     *)
(* sends, a request line, a token, a body) is a sequence of bytes.  What   *)
(* the server hands to the socket is kept as a sequence of chunks, one     *)
(* string per Flush that had something to send.                            *)
(***************************************************************************)
EXTENDS Integers, Sequences, FiniteSets, TLC

VARIABLES
    pc,       \* pc[c]: where the goroutine of connection c stands
    input,    \* input[c]: the bytes the client of c has sent and the server has not read
    eof,      \* eof[c]: the client has closed its side of the stream
    nsent,    \* nsent[c]: the number of writes the client has made
    req,      \* req[c]: the *Request being served (Command, Args) and the loop index of get/gets
    wr,       \* wr[c]: the bufio.Writer and the socket under it: buf, the unflushed
              \*        bytes; sent, the chunks handed to the socket in this iteration of
              \*        the loop; err, the error the Writer keeps once a write has failed;
              \*        down, the socket takes no more bytes
    store,    \* the Store shared by all connections: key -> value
    crashed,  \* TRUE once a goroutine has panicked (an unrecovered panic ends the process)
    log       \* log[c]: the last iterations of the loop of c (history)

vars == <<pc, input, eof, nsent, req, wr, store, crashed, log>>

----------------------------------------------------------------------------
(* Bounds of the model *)

\* number of connections the listener can be given
NConns == 2
\* number of writes a client makes on one connection
MaxSends == 2

Conns == 1..NConns

----------------------------------------------------------------------------
(* Bytes and strings *)

CR == "\r"
LF == "\n"
SP == " "

\* const eol = "\r\n", as bytes and as a string
eol == <<CR, LF>>
eolStr == "\r\n"

\* string(bytes)
RECURSIVE Str(_)
Str(bs) == IF bs = <<>> THEN "" ELSE Head(bs) \o Str(Tail(bs))

\* the concatenation of a sequence of strings
RECURSIVE Cat(_)
Cat(ss) == IF ss = <<>> THEN "" ELSE Head(ss) \o Cat(Tail(ss))

Digits == <<"0", "1", "2", "3", "4", "5", "6", "7", "8", "9">>

IsDigit(b) == \E i \in 1..10 : Digits[i] = b

DigitVal(b) == (CHOOSE i \in 1..10 : Digits[i] = b) - 1

\* fmt's %d of a non-negative integer
RECURSIVE Itoa(_)
Itoa(n) == IF n < 10 THEN Digits[n + 1] ELSE Itoa(n \div 10) \o Digits[(n % 10) + 1]

----------------------------------------------------------------------------
(* strconv.Atoi, on a token.  The result is err (a syntax or range error),  *)
(* neg (the value is below zero) and mag, the decimal digits of the         *)
(* magnitude without leading zeros: an int is 64 bits wide, wider than the  *)
(* integers TLC computes with, so magnitudes are compared digit by digit.   *)

RECURSIVE StripZeros(_)
StripZeros(ds) == IF Len(ds) > 1 /\ Head(ds) = "0" THEN StripZeros(Tail(ds)) ELSE ds

\* a < b, both digit strings of the same length
RECURSIVE LexLess(_, _)
LexLess(a, b) ==
    IF a = <<>> THEN FALSE
    ELSE IF Head(a) # Head(b) THEN DigitVal(Head(a)) < DigitVal(Head(b))
    ELSE LexLess(Tail(a), Tail(b))

\* a > b as numbers, both without leading zeros
DigitsGreater(a, b) == Len(a) > Len(b) \/ (Len(a) = Len(b) /\ LexLess(b, a))

\* 1<<63 - 1, the largest int
MaxInt == <<"9","2","2","3","3","7","2","0","3","6","8","5","4","7","7","5","8","0","7">>
\* 1<<63, the magnitude of the smallest int
MinIntMag == <<"9","2","2","3","3","7","2","0","3","6","8","5","4","7","7","5","8","0","8">>

\* Atoi that parses the digits and loses the sign
AtoiUnsigned(tok) ==
    LET signed == tok # <<>> /\ Head(tok) \in {"+", "-"}
        ds     == IF signed THEN Tail(tok) ELSE tok
        mag    == StripZeros(ds)
    IN  IF ds = <<>> \/ \E i \in 1..Len(ds) : ~IsDigit(ds[i])
        THEN [err |-> TRUE, neg |-> FALSE, mag |-> <<"0">>]
        ELSE IF DigitsGreater(mag, MaxInt)
        THEN [err |-> TRUE, neg |-> FALSE, mag |-> mag]
        ELSE [err |-> FALSE, neg |-> FALSE, mag |-> mag]

Atoi(tok) ==
    LET signed == tok # <<>> /\ Head(tok) \in {"+", "-"}
        ds     == IF signed THEN Tail(tok) ELSE tok
        neg    == signed /\ Head(tok) = "-"
        mag    == StripZeros(ds)
    IN  IF ds = <<>> \/ \E i \in 1..Len(ds) : ~IsDigit(ds[i])
        THEN [err |-> TRUE, neg |-> FALSE, mag |-> <<"0">>]
        ELSE IF DigitsGreater(mag, IF neg THEN MinIntMag ELSE MaxInt)
        THEN [err |-> TRUE, neg |-> neg, mag |-> mag]
        ELSE [err |-> FALSE, neg |-> neg /\ mag # <<"0">>, mag |-> mag]

\* the value of a digit string that is short enough for the integers of TLC
RECURSIVE NatOf(_)
NatOf(ds) == IF ds = <<>> THEN 0 ELSE NatOf(SubSeq(ds, 1, Len(ds) - 1)) * 10 + DigitVal(ds[Len(ds)])

----------------------------------------------------------------------------
(* connection.readRequestLine and connection.readRequestBody *)

\* the offsets after p at which input holds a '\n'
Newlines(in, p) == {i \in (p + 1)..Len(in) : in[i] = LF}

Min(S) == CHOOSE x \in S : \A y \in S : x <= y

\* the split that takes a run of spaces for one separator and drops the
\* spaces in front, as strings.Fields does
RECURSIVE SplitFields(_)
SplitFields(s) ==
    LET sps == {i \in 1..Len(s) : s[i] = SP}
    IN  IF sps = {} THEN <<s>>
        ELSE LET head == SubSeq(s, 1, Min(sps) - 1)
                 rest == SplitFields(SubSeq(s, Min(sps) + 1, Len(s)))
             IN  IF head = <<>> THEN rest ELSE <<head>> \o rest

\* strings.Split(s, " "): a token between every two spaces, empty tokens included
RECURSIVE Split(_)
Split(s) ==
    LET sps == {i \in 1..Len(s) : s[i] = SP}
    IN  IF sps = {} THEN <<s>>
        ELSE <<SubSeq(s, 1, Min(sps) - 1)>> \o Split(SubSeq(s, Min(sps) + 1, Len(s)))

\* readRequestLine as a reader that takes '\n' for the end of a line and
\* drops a '\r' before it, if there is one
readRequestLineLenient(in, closed) ==
    IF Newlines(in, 0) = {}
    THEN [kind |-> IF closed THEN "ioerr" ELSE "wait",
          line |-> in, rest |-> <<>>, Command |-> <<>>, Args |-> <<>>]
    ELSE LET e     == Min(Newlines(in, 0))
             line  == SubSeq(in, 1, e)
             text  == IF e > 1 /\ in[e - 1] = CR THEN SubSeq(in, 1, e - 2)
                                                ELSE SubSeq(in, 1, e - 1)
             parts == Split(text)
         IN  [kind |-> "ok", line |-> line, rest |-> SubSeq(in, e + 1, Len(in)),
              Command |-> Head(parts), Args |-> Tail(parts)]

\* One call of readRequestLine on the unread bytes in, closed telling that
\* the stream has ended.  rest is what stays unread.
\*   wait:   ReadString blocks, there is no '\n' yet
\*   ioerr:  ReadString found no '\n' before the stream ended
\*   panic:  the line is "\n" alone, line[len(line)-len(eol):] slices from -1
\*   badeol: the line does not end in eol
\*   ok:     the request; strings.Split never returns an empty slice
readRequestLine(in, closed) ==
    IF Newlines(in, 0) = {}
    THEN [kind |-> IF closed THEN "ioerr" ELSE "wait",
          line |-> in, rest |-> <<>>, Command |-> <<>>, Args |-> <<>>]
    ELSE LET e    == Min(Newlines(in, 0))
             line == SubSeq(in, 1, e)
             rest == SubSeq(in, e + 1, Len(in))
         IN  IF Len(line) < Len(eol)
             THEN [kind |-> "panic", line |-> line, rest |-> rest,
                   Command |-> <<>>, Args |-> <<>>]
             ELSE IF SubSeq(line, Len(line) - Len(eol) + 1, Len(line)) # eol
             THEN [kind |-> "badeol", line |-> line, rest |-> rest,
                   Command |-> <<>>, Args |-> <<>>]
             ELSE LET parts == Split(SubSeq(line, 1, Len(line) - Len(eol)))
                  IN  [kind |-> "ok", line |-> line, rest |-> rest,
                       Command |-> Head(parts), Args |-> Tail(parts)]

\* readRequestBody as a reader that takes the body to end at the first eol
readRequestBodyToEol(in, length) ==
    IF Newlines(in, 0) = {}
    THEN [err |-> "unexpected EOF", taken |-> in, rest |-> <<>>, body |-> <<>>]
    ELSE LET e == Min(Newlines(in, 0))
         IN  IF e < Len(eol) \/ SubSeq(in, e - 1, e) # eol
             THEN [err |-> "invalid EOL (must be '\\r\\n'", taken |-> SubSeq(in, 1, e),
                   rest |-> SubSeq(in, e + 1, Len(in)), body |-> <<>>]
             ELSE [err |-> "", taken |-> SubSeq(in, 1, e),
                   rest |-> SubSeq(in, e + 1, Len(in)), body |-> SubSeq(in, 1, e - Len(eol))]

\* readRequestBody as a reader that, finding no eol after the body, drops the
\* bytes up to the end of the line to find the next request
readRequestBodyResync(in, length) ==
    LET want == length + Len(eol)
    IN  IF Len(in) < want
        THEN [err |-> IF Len(in) = 0 THEN "EOF" ELSE "unexpected EOF",
              taken |-> in, rest |-> <<>>, body |-> <<>>]
        ELSE IF SubSeq(in, length + 1, want) # eol
        THEN LET e == IF Newlines(in, want) = {} THEN Len(in) ELSE Min(Newlines(in, want))
             IN  [err |-> "invalid EOL (must be '\\r\\n'",
                  taken |-> SubSeq(in, 1, e), rest |-> SubSeq(in, e + 1, Len(in)),
                  body |-> <<>>]
        ELSE [err |-> "", taken |-> SubSeq(in, 1, want),
              rest |-> SubSeq(in, want + 1, Len(in)), body |-> SubSeq(in, 1, length)]

\* One call of readRequestBody(length) on the unread bytes in of a stream
\* that has ended or holds length+len(eol) bytes.  io.ReadFull fails with EOF
\* when nothing is left and with "unexpected EOF" when too little is;
\* taken is what the call consumed.
readRequestBody(in, length) ==
    LET want == length + Len(eol)
    IN  IF Len(in) < want
        THEN [err |-> IF Len(in) = 0 THEN "EOF" ELSE "unexpected EOF",
              taken |-> in, rest |-> <<>>, body |-> <<>>]
        ELSE IF SubSeq(in, length + 1, want) # eol
        THEN [err |-> "invalid EOL (must be '\\r\\n'",
              taken |-> SubSeq(in, 1, want), rest |-> SubSeq(in, want + 1, Len(in)),
              body |-> <<>>]
        ELSE [err |-> "", taken |-> SubSeq(in, 1, want),
              rest |-> SubSeq(in, want + 1, Len(in)), body |-> SubSeq(in, 1, length)]

----------------------------------------------------------------------------
(* The bufio.Writer of a connection and the Response encoder *)

\* a Writer that has seen a write fail accepts no more bytes
WriteString(w, s) == IF w.err THEN w ELSE [w EXCEPT !.buf = @ \o s]

\* Flush hands the buffered bytes to the socket in one write, if there are any.
\* When the write fails the bytes stay in the buffer and the Writer keeps the
\* error: every later WriteString and Flush returns it and does nothing.
Flush(w) ==
    IF w.err \/ w.buf = "" THEN w
    ELSE IF w.down THEN [w EXCEPT !.err = TRUE]
    ELSE [w EXCEPT !.buf = "", !.sent = Append(@, w.buf)]

Status(w, status) == Flush(WriteString(w, status \o eolStr))

\* the unknown command reported as a client error
UnknownCommandAsClientError(w) == Status(w, "CLIENT_ERROR unknown command")

UnknownCommandError(w) == Status(w, "ERROR")

\* ClientError without the space after the token
ClientErrorJoined(w, msg) == Status(w, "CLIENT_ERROR" \o msg)

ClientError(w, msg) == Status(w, "CLIENT_ERROR " \o msg)

ServerError(w, msg) == Status(w, "SERVER_ERROR " \o msg)

ValueFull(w, key, body, flags, cas) ==
    LET w1 == WriteString(w, "VALUE " \o Str(key) \o " " \o Itoa(flags) \o " "
                             \o Itoa(Len(body)) \o " " \o Itoa(cas))
        w2 == WriteString(w1, eolStr)
        w3 == WriteString(w2, Str(body))
        w4 == WriteString(w3, eolStr)
    IN  Flush(w4)

Value(w, key, body) == ValueFull(w, key, body, 0, 0)

----------------------------------------------------------------------------
(* The Store (simplemmc.Handler) and its errors *)

\* SetMode
Set == 0
Add == 1
Replace == 2

ErrNotFound == "NOT_FOUND"
ErrNotStored == "NOT_STORED"
ErrExists == "EXISTS"
\* the message of an error of the Store that is none of the three above
ErrOther == "store failure"

\* the version string of the "version" command
MemcacheVersion == "1.0"

\* What h.Get(key) may return: the value it holds or ErrNotFound, or a failure.
GetResults(st, key) ==
    (IF key \in DOMAIN st THEN {[err |-> "", data |-> st[key]]}
                          ELSE {[err |-> ErrNotFound, data |-> <<>>]})
    \cup {[err |-> ErrOther, data |-> <<>>]}

\* What h.Set may return; the interface leaves the choice to the Store.
SetResults == {"", ErrNotStored, ErrNotFound, ErrExists, ErrOther}

\* What h.Del(key) may return.
DelResults(st, key) == (IF key \in DOMAIN st THEN {""} ELSE {ErrNotFound}) \cup {ErrOther}

\* the Store after Set(key, value, mode) returned err
StoreSet(st, key, value, err) ==
    IF err = "" THEN [k \in DOMAIN st \cup {key} |-> IF k = key THEN value ELSE st[k]]
    ELSE st

\* the Store after Del(key) returned err
StoreDel(st, key, err) ==
    IF err = "" THEN [k \in DOMAIN st \ {key} |-> st[k]] ELSE st

----------------------------------------------------------------------------
(* What clients send: at most MaxSends writes, each one of the fragments    *)
(* below, and then the close of the stream.                                *)

cmdGet == <<"g", "e", "t">>
cmdGets == <<"g", "e", "t", "s">>
cmdSet == <<"s", "e", "t">>
cmdAdd == <<"a", "d", "d">>
cmdReplace == <<"r", "e", "p", "l", "a", "c", "e">>
cmdDel == <<"d", "e", "l">>
cmdVersion == <<"v", "e", "r", "s", "i", "o", "n">>
cmdQuit == <<"q", "u", "i", "t">>
noreplyTok == <<"n", "o", "r", "e", "p", "l", "y">>

keyK == <<"k">>
keyA == <<"a">>
zero == <<"0">>
bodyAbc == <<"a", "b", "c">>
bodyX == <<"x">>
\* a body with a space, an eol and the text of a command in it
bodyTricky == <<"a", SP, CR, LF, "q", "u", "i", "t">>

\* the tokens with one space between them
RECURSIVE JoinSp(_)
JoinSp(toks) ==
    IF Len(toks) = 1 THEN Head(toks) ELSE Head(toks) \o <<SP>> \o JoinSp(Tail(toks))

\* a request line
Line(toks) == JoinSp(toks) \o eol

\* a storage request: its line and its body block
WithBody(toks, body) == Line(toks) \o body \o eol

\* What a client may send in one write: one request or several in a row.
Fragments == {
    \* a value is stored and read back
    WithBody(<<cmdSet, keyK, zero, zero, <<"3">>>>, bodyAbc) \o Line(<<cmdGet, keyK>>),
    WithBody(<<cmdSet, keyK, zero, zero, <<"0">>>>, <<>>) \o Line(<<cmdGet, keyK>>),
    WithBody(<<cmdSet, keyK, zero, zero, <<"8">>>>, bodyTricky) \o Line(<<cmdGet, keyK>>),
    WithBody(<<cmdSet, keyK, zero, zero, <<"3">>, noreplyTok>>, bodyAbc)
        \o Line(<<cmdGet, keyK>>),
    WithBody(<<cmdAdd, keyK, zero, zero, <<"1">>, noreplyTok>>, bodyX),
    WithBody(<<cmdAdd, keyK, zero, zero, <<"+", "1">>>>, bodyX),
    WithBody(<<cmdReplace, keyK, zero, zero, <<"1">>>>, bodyX),
    WithBody(<<cmdSet, keyK, zero, zero, <<"3">>, noreplyTok, <<"x">>>>, bodyAbc),
    \* too few arguments
    Line(<<cmdSet, keyK, zero, noreplyTok>>) \o Line(<<cmdReplace>>) \o Line(<<cmdDel>>),
    \* a length that is no length
    Line(<<cmdSet, keyK, zero, zero, <<"-", "1">>>>)
        \o Line(<<cmdAdd, keyK, zero, zero, <<"x", "1">>, noreplyTok>>),
    \* a length no buffer can have
    Line(<<cmdSet, keyK, zero, zero, MaxInt>>),
    Line(<<cmdSet, keyK, zero, zero, <<"4","2","9","4","9","6","7","2","9","6">>>>),
    \* a body longer or shorter than declared
    WithBody(<<cmdSet, keyK, zero, zero, <<"1">>>>, bodyAbc),
    WithBody(<<cmdSet, keyK, zero, zero, <<"3">>>>, <<"a", "b", "c", "d">>),
    Line(<<cmdSet, keyK, zero, zero, <<"3">>>>) \o <<"a", "b">>,
    WithBody(<<cmdAdd, keyK, zero, zero, <<"0">>, noreplyTok>>, <<"x", "y">>),
    \* retrieval
    Line(<<cmdGet, keyK>>),
    Line(<<cmdGet, keyK, keyA>>),
    Line(<<cmdGets, keyA, keyK>>),
    Line(<<cmdGets, keyK, keyK>>) \o Line(<<cmdGet>>),
    \* deletion
    Line(<<cmdDel, keyK>>),
    Line(<<cmdDel, keyA, noreplyTok>>) \o Line(<<cmdDel, keyK, zero, noreplyTok>>),
    Line(<<cmdDel, keyA, noreplyTok, <<"x">>>>),
    \* the rest of the commands, and none of them
    Line(<<<<"G", "E", "T">>, keyK>>) \o Line(<<cmdVersion>>) \o Line(<<cmdQuit, keyK>>),
    Line(<<cmdQuit>>) \o Line(<<cmdGet, keyK>>),
    \* lines that are no requests
    eol \o Line(<<<<>>, cmdGet, keyK>>) \o Line(<<cmdGet, <<>>, keyK>>),
    <<LF>>,
    JoinSp(<<cmdGet, keyK>>) \o <<LF>> \o Line(<<cmdGet, keyK>>)
}

\* The short menu: a session that stores and reads back, one that goes
\* through the other commands, and what ends a loop or leaves it waiting.
FewFragments == {
    WithBody(<<cmdSet, keyK, zero, zero, <<"1">>>>, bodyX) \o Line(<<cmdGet, keyK>>),
    eol \o Line(<<cmdDel, keyK>>) \o Line(<<cmdVersion>>) \o Line(<<<<"b", "o", "g", "u", "s">>>>)
        \o Line(<<cmdQuit>>),
    Line(<<cmdSet, keyK, zero, zero, <<"3">>>>) \o <<"a", "b">>,
    Line(<<cmdSet, keyK, zero, zero, MaxInt>>),
    JoinSp(<<cmdGet, keyK>>) \o <<LF>>,
    <<LF>>
}

\* what the Store may hold when the listener starts
InitialStores == {<<>>, [k \in {keyA} |-> bodyX]}

----------------------------------------------------------------------------
(* The initial state: the listener is up, the clients have connected and    *)
(* no connection is accepted yet.                                           *)

NoRequest == [Command |-> <<>>, Args |-> <<>>, i |-> 0]

NoOutput == [buf |-> "", sent |-> <<>>, err |-> FALSE, down |-> FALSE]

InitWith(clients) ==
    /\ pc = [c \in Conns |-> IF c \in clients THEN "pending" ELSE "idle"]
    /\ input = [c \in Conns |-> <<>>]
    /\ eof = [c \in Conns |-> FALSE]
    /\ nsent = [c \in Conns |-> 0]
    /\ req = [c \in Conns |-> NoRequest]
    /\ wr = [c \in Conns |-> NoOutput]
    /\ store \in InitialStores
    /\ crashed = FALSE
    /\ log = [c \in Conns |-> <<>>]

\* one client connects
Init == InitWith({1})

----------------------------------------------------------------------------
(* The history of a connection: an entry per iteration of the loop of run,  *)
(* the last two of them kept.                                               *)
(*   kind:          what readRequestLine returned                           *)
(*   line:          the bytes it consumed                                   *)
(*   Command, Args: the request it returned                                 *)
(*   bodyRead:      ReadBody was called; taken: the bytes it consumed       *)
(*   out:           the chunks handed to the socket                         *)
(*   calls:         the calls of the Store and what they returned           *)
(*   exit:          "serving" the handler is running, "continue" the loop   *)
(*                  went on, "close" it broke out, "panic" a panic unwound  *)
(*                  it, "fatal" the runtime ended the process               *)

Entry(r, exit) ==
    [kind |-> r.kind, line |-> r.line, Command |-> r.Command, Args |-> r.Args,
     bodyRead |-> FALSE, taken |-> <<>>, out |-> <<>>, calls |-> <<>>, exit |-> exit]

Last(l) == l[Len(l)]

Push(l, e) == IF Len(l) = 2 THEN <<l[2], e>> ELSE Append(l, e)

\* the handler of c has left the writer at w: add to the entry of this iteration
Note(c, w, bodyRead, taken, calls, exit) ==
    [log EXCEPT ![c][Len(log[c])] =
        [@ EXCEPT !.bodyRead = @ \/ bodyRead,
                  !.taken = @ \o taken,
                  !.out = w.sent,
                  !.calls = @ \o calls,
                  !.exit = exit]]

----------------------------------------------------------------------------
(* Serve: the accept loop starts a goroutine per connection *)

Accept(c) ==
    /\ ~crashed
    /\ pc[c] = "pending"
    /\ pc' = [pc EXCEPT ![c] = "read"]
    /\ UNCHANGED <<input, eof, nsent, req, wr, store, crashed, log>>

----------------------------------------------------------------------------
(* connection.run: one iteration up to the call of the handler *)

\* the loop of c is at c.readRequestLine()
Reading(c) == ~crashed /\ pc[c] = "read"

\* readRequestLine returned an error: break, and the deferred Close
RunReadError(c) ==
    /\ Reading(c)
    /\ LET r == readRequestLine(input[c], eof[c]) IN
         /\ r.kind \in {"ioerr", "badeol"}
         /\ input' = [input EXCEPT ![c] = r.rest]
         /\ log' = [log EXCEPT ![c] = Push(@, Entry(r, "close"))]
    /\ pc' = [pc EXCEPT ![c] = "closed"]
    /\ wr' = [wr EXCEPT ![c].sent = <<>>]
    /\ UNCHANGED <<eof, nsent, req, store, crashed>>

\* readRequestLine panicked: the deferred Close runs, nothing recovers
RunReadPanic(c) ==
    /\ Reading(c)
    /\ LET r == readRequestLine(input[c], eof[c]) IN
         /\ r.kind = "panic"
         /\ input' = [input EXCEPT ![c] = r.rest]
         /\ log' = [log EXCEPT ![c] = Push(@, Entry(r, "panic"))]
    /\ pc' = [pc EXCEPT ![c] = "closed"]
    /\ wr' = [wr EXCEPT ![c].sent = <<>>]
    /\ crashed' = TRUE
    /\ UNCHANGED <<eof, nsent, req, store>>

\* req.Command == "": continue
RunSkip(c) ==
    /\ Reading(c)
    /\ LET r == readRequestLine(input[c], eof[c]) IN
         /\ r.kind = "ok"
         /\ r.Command = <<>>
         /\ input' = [input EXCEPT ![c] = r.rest]
         /\ log' = [log EXCEPT ![c] = Push(@, Entry(r, "continue"))]
    /\ wr' = [wr EXCEPT ![c].sent = <<>>]
    /\ UNCHANGED <<pc, eof, nsent, req, store, crashed>>

\* handler.ServeMemcache(req, &Response{c}) is called
RunServe(c) ==
    /\ Reading(c)
    /\ LET r == readRequestLine(input[c], eof[c]) IN
         /\ r.kind = "ok"
         /\ r.Command # <<>>
         /\ input' = [input EXCEPT ![c] = r.rest]
         /\ req' = [req EXCEPT ![c] = [Command |-> r.Command, Args |-> r.Args, i |-> 0]]
         /\ log' = [log EXCEPT ![c] = Push(@, Entry(r, "serving"))]
    /\ pc' = [pc EXCEPT ![c] = "serve"]
    /\ wr' = [wr EXCEPT ![c].sent = <<>>]
    /\ UNCHANGED <<eof, nsent, store, crashed>>

----------------------------------------------------------------------------
(* fullHandler: the dispatcher.  A handler that returns nil lets the loop   *)
(* read the next line; the bare returns of the source return nil.           *)

Serving(c) == ~crashed /\ pc[c] = "serve"

\* the handler of c returns nil, the writer at w and rest unread
Return(c, w, rest, bodyRead, taken, calls) ==
    /\ wr' = [wr EXCEPT ![c] = w]
    /\ input' = [input EXCEPT ![c] = rest]
    /\ req' = [req EXCEPT ![c] = NoRequest]
    /\ pc' = [pc EXCEPT ![c] = "read"]
    /\ log' = Note(c, w, bodyRead, taken, calls, "continue")

\* the same for a handler that has read no body
Reply(c, w, calls) == Return(c, w, input[c], FALSE, <<>>, calls)

\* the truncation applied to gets too
KeysOfFirst(cmd, args) == SubSeq(args, 1, 1)

\* no truncation at all
KeysOfAll(cmd, args) == args

\* if req.Command == "get" { req.Args = req.Args[:1] }
KeysOf(cmd, args) == IF cmd = cmdGet THEN SubSeq(args, 1, 1) ELSE args

\* case "get", "gets": up to the loop over the keys
ServeGet(c) ==
    /\ Serving(c)
    /\ req[c].Command \in {cmdGet, cmdGets}
    /\ IF Len(req[c].Args) = 0
       THEN Reply(c, ClientError(wr[c], "key required"), <<>>)
       ELSE /\ req' = [req EXCEPT ![c].Args = KeysOf(req[c].Command, @), ![c].i = 1]
            /\ pc' = [pc EXCEPT ![c] = "keys"]
            /\ UNCHANGED <<input, wr, log>>
    /\ UNCHANGED <<eof, nsent, store, crashed>>

\* the loop over req.Args that reports a failure of the Store and goes on to
\* the next key
GetKeyGoesOn(c) ==
    /\ ~crashed
    /\ pc[c] = "keys"
    /\ LET key  == req[c].Args[req[c].i]
           last == req[c].i = Len(req[c].Args)
       IN  \E got \in GetResults(store, key) :
             LET call == <<[op |-> "Get", key |-> key, err |-> got.err, data |-> got.data]>>
                 w    == IF got.err = "" THEN Value(wr[c], key, got.data)
                         ELSE IF got.err = ErrNotFound THEN wr[c]
                         ELSE ServerError(wr[c], got.err)
             IN  IF last
                 THEN Reply(c, Status(w, "END"), call)
                 ELSE /\ wr' = [wr EXCEPT ![c] = w]
                      /\ req' = [req EXCEPT ![c].i = @ + 1]
                      /\ log' = Note(c, w, FALSE, <<>>, call, "serving")
                      /\ UNCHANGED <<pc, input>>
    /\ UNCHANGED <<eof, nsent, store, crashed>>

\* one iteration of the loop over req.Args, and resp.Status("END") after the last
GetKey(c) ==
    /\ ~crashed
    /\ pc[c] = "keys"
    /\ LET key  == req[c].Args[req[c].i]
           last == req[c].i = Len(req[c].Args)
       IN  \E got \in GetResults(store, key) :
             LET call == <<[op |-> "Get", key |-> key, err |-> got.err, data |-> got.data]>>
             IN  IF got.err = ErrNotFound \/ got.err = ""
                 THEN LET w == IF got.err = "" THEN Value(wr[c], key, got.data) ELSE wr[c]
                      IN  IF last
                          THEN Reply(c, Status(w, "END"), call)
                          ELSE /\ wr' = [wr EXCEPT ![c] = w]
                               /\ req' = [req EXCEPT ![c].i = @ + 1]
                               /\ log' = Note(c, w, FALSE, <<>>, call, "serving")
                               /\ UNCHANGED <<pc, input>>
                 ELSE Reply(c, ServerError(wr[c], got.err), call)
    /\ UNCHANGED <<eof, nsent, store, crashed>>

----------------------------------------------------------------------------
(* case "set", "add", "replace" *)

\* the noreply of a storage command looked for one argument too early
NoReplySetEarly(args) == Len(args) = 5 /\ args[4] = noreplyTok

\* the noreply of a storage command taken from the 5th argument of five or more
NoReplySetAtLeast(args) == Len(args) >= 5 /\ args[5] = noreplyTok

\* noreply := len(req.Args) == 5 && req.Args[4] == "noreply"
NoReplySet(args) == Len(args) = 5 /\ args[5] = noreplyTok

\* the switch with the cases of add and replace exchanged
ModeOfSwapped(cmd) ==
    CASE cmd = cmdSet -> Set
      [] cmd = cmdAdd -> Replace
      [] cmd = cmdReplace -> Add

\* the switch that maps the command to the mode
ModeOf(cmd) ==
    CASE cmd = cmdSet -> Set
      [] cmd = cmdAdd -> Add
      [] cmd = cmdReplace -> Replace

\* the response to what h.Set returned
SetStatus(w, err) ==
    IF err \in {ErrNotStored, ErrNotFound, ErrExists} THEN Status(w, err)
    ELSE IF err # "" THEN ServerError(w, err)
    ELSE Status(w, "STORED")

\* 1<<48 - len(eol): the longest body for which make([]byte, length+len(eol))
\* does not panic with "len out of range" (maxAlloc of a 64-bit Linux build);
\* the lengths above it include those for which length+len(eol) wraps around
MaxBodyAlloc == <<"2","8","1","4","7","4","9","7","6","7","1","0","6","5","4">>

\* make panics
AllocPanics(mag) == DigitsGreater(mag, MaxBodyAlloc)

\* a gigabyte or more: whether the runtime gets the memory depends on the
\* machine, and no client of the model sends that much
AllocMayFail(mag) == ~AllocPanics(mag) /\ Len(mag) > 9

\* io.ReadFull has what it needs to return: the bytes, or the end of the stream
BodyReady(c, mag) ==
    \/ eof[c]
    \/ ~AllocMayFail(mag) /\ Len(input[c]) >= NatOf(mag) + Len(eol)

\* a panic that unwinds a run whose Close is not deferred
PanicUnclosed(c, bodyRead) ==
    /\ pc' = [pc EXCEPT ![c] = "aborted"]
    /\ crashed' = TRUE
    /\ log' = Note(c, wr[c], bodyRead, <<>>, <<>>, "panic")
    /\ UNCHANGED <<input, req, wr, store>>

\* a panic unwinds run: the deferred Close runs and the process ends
Panic(c, bodyRead) ==
    /\ pc' = [pc EXCEPT ![c] = "closed"]
    /\ crashed' = TRUE
    /\ log' = Note(c, wr[c], bodyRead, <<>>, <<>>, "panic")
    /\ UNCHANGED <<input, req, wr, store>>

\* the runtime throws "out of memory": the process ends, nothing is deferred
Fatal(c, bodyRead) ==
    /\ pc' = [pc EXCEPT ![c] = "killed"]
    /\ crashed' = TRUE
    /\ log' = Note(c, wr[c], bodyRead, <<>>, <<>>, "fatal")
    /\ UNCHANGED <<input, req, wr, store>>

\* the rest of the case with a Set that is called with what was read even
\* when ReadBody failed
StoreBodyAnyway(c, noreply, rb) ==
    \E err \in SetResults :
      LET key  == req[c].Args[1]
          body == IF rb.err # "" THEN rb.taken ELSE rb.body
          mode == ModeOf(req[c].Command)
          call == <<[op |-> "Set", key |-> key, value |-> body,
                     mode |-> mode, err |-> err]>>
          w    == IF noreply THEN wr[c]
                  ELSE IF rb.err # "" THEN ServerError(wr[c], rb.err)
                  ELSE SetStatus(wr[c], err)
      IN  /\ store' = StoreSet(store, key, body, err)
          /\ Return(c, w, rb.rest, TRUE, rb.taken, call)
          /\ UNCHANGED crashed

\* req.ReadBody(bodyLen) returned rb: the rest of the case
StoreBody(c, noreply, rb) ==
    IF rb.err # ""
    THEN /\ Return(c, IF noreply THEN wr[c] ELSE ServerError(wr[c], rb.err),
                   rb.rest, TRUE, rb.taken, <<>>)
         /\ UNCHANGED <<store, crashed>>
    ELSE \E err \in SetResults :
           LET key  == req[c].Args[1]
               mode == ModeOf(req[c].Command)
               call == <<[op |-> "Set", key |-> key, value |-> rb.body,
                          mode |-> mode, err |-> err]>>
           IN  /\ store' = StoreSet(store, key, rb.body, err)
               /\ Return(c, IF noreply THEN wr[c] ELSE SetStatus(wr[c], err),
                         rb.rest, TRUE, rb.taken, call)
               /\ UNCHANGED crashed

ServeSet(c) ==
    /\ Serving(c)
    /\ req[c].Command \in {cmdSet, cmdAdd, cmdReplace}
    /\ LET args    == req[c].Args
           noreply == NoReplySet(args)
           bodyLen == Atoi(args[4])
       IN  IF Len(args) < 4
           THEN /\ Reply(c, ClientError(wr[c], "invalid command format"), <<>>)
                /\ UNCHANGED <<store, crashed>>
           ELSE IF bodyLen.err \/ bodyLen.neg
           THEN /\ Reply(c, IF noreply THEN wr[c]
                                       ELSE ClientError(wr[c], "invalid data length"), <<>>)
                /\ UNCHANGED <<store, crashed>>
           ELSE IF AllocPanics(bodyLen.mag)
           THEN Panic(c, TRUE)
           ELSE \/ /\ AllocMayFail(bodyLen.mag)
                   /\ Fatal(c, TRUE)
                \/ /\ BodyReady(c, bodyLen.mag)
                   /\ StoreBody(c, noreply,
                         IF AllocMayFail(bodyLen.mag)
                         THEN [err |-> IF input[c] = <<>> THEN "EOF" ELSE "unexpected EOF",
                               taken |-> input[c], rest |-> <<>>, body |-> <<>>]
                         ELSE readRequestBody(input[c], NatOf(bodyLen.mag)))
    /\ UNCHANGED <<eof, nsent>>

\* the handler of c is inside io.ReadFull, which has not got its bytes
AwaitsBody(c) ==
    /\ Serving(c)
    /\ req[c].Command \in {cmdSet, cmdAdd, cmdReplace}
    /\ Len(req[c].Args) >= 4
    /\ LET bodyLen == Atoi(req[c].Args[4])
       IN  /\ ~bodyLen.err /\ ~bodyLen.neg
           /\ ~AllocPanics(bodyLen.mag)
           /\ ~BodyReady(c, bodyLen.mag)

----------------------------------------------------------------------------
(* case "del" *)

\* noreply := len(req.Args) == 2 && req.Args[1] == "noreply"
NoReplyDel(args) == Len(args) = 2 /\ args[2] = noreplyTok

\* the response to what h.Del returned
DelStatus(w, err) ==
    IF err = ErrNotFound THEN Status(w, err)
    ELSE IF err # "" THEN ServerError(w, err)
    ELSE Status(w, "DELETED")

ServeDel(c) ==
    /\ Serving(c)
    /\ req[c].Command = cmdDel
    /\ LET args == req[c].Args
       IN  IF Len(args) < 1
           THEN /\ Reply(c, ClientError(wr[c], "invalid command format"), <<>>)
                /\ UNCHANGED store
           ELSE \E err \in DelResults(store, args[1]) :
                  /\ store' = StoreDel(store, args[1], err)
                  /\ Reply(c, IF NoReplyDel(args) THEN wr[c] ELSE DelStatus(wr[c], err),
                           <<[op |-> "Del", key |-> args[1], err |-> err]>>)
    /\ UNCHANGED <<eof, nsent, crashed>>

----------------------------------------------------------------------------
(* case "version", case "quit", default *)

ServeVersion(c) ==
    /\ Serving(c)
    /\ req[c].Command = cmdVersion
    /\ Reply(c, Status(wr[c], "VERSION " \o MemcacheVersion), <<>>)
    /\ UNCHANGED <<eof, nsent, store, crashed>>

\* quit that returns nil, as the other cases do
ServeQuitContinues(c) ==
    /\ Serving(c)
    /\ req[c].Command = cmdQuit
    /\ Reply(c, wr[c], <<>>)
    /\ UNCHANGED <<eof, nsent, store, crashed>>

\* return memcache.ErrCloseConnection: run breaks, and the deferred Close
ServeQuit(c) ==
    /\ Serving(c)
    /\ req[c].Command = cmdQuit
    /\ pc' = [pc EXCEPT ![c] = "closed"]
    /\ req' = [req EXCEPT ![c] = NoRequest]
    /\ log' = Note(c, wr[c], FALSE, <<>>, <<>>, "close")
    /\ UNCHANGED <<input, eof, nsent, wr, store, crashed>>

Commands == {cmdGet, cmdGets, cmdSet, cmdAdd, cmdReplace, cmdDel, cmdVersion, cmdQuit}

ServeUnknown(c) ==
    /\ Serving(c)
    /\ req[c].Command \notin Commands
    /\ Reply(c, UnknownCommandError(wr[c]), <<>>)
    /\ UNCHANGED <<eof, nsent, store, crashed>>

----------------------------------------------------------------------------
(* The clients.  Nothing the server does depends on when bytes arrive, only *)
(* on what they are: a client writes, or closes, when the server waits for  *)
(* input, and a write may carry several requests.                           *)

\* the goroutine of c blocks in a read
Blocked(c) ==
    \/ Reading(c) /\ readRequestLine(input[c], eof[c]).kind = "wait"
    \/ AwaitsBody(c)

\* the connections that have a client
Clients == {c \in Conns : pc[c] # "idle"}

\* What the clients of this run choose from: a client alone on the first
\* connection tries everything, the clients of the other runs the short menu.
Menu == IF Clients = {1} THEN Fragments ELSE FewFragments

ClientSend(c) ==
    /\ Blocked(c)
    /\ nsent[c] < MaxSends
    /\ \E f \in Menu : input' = [input EXCEPT ![c] = @ \o f]
    /\ nsent' = [nsent EXCEPT ![c] = @ + 1]
    /\ UNCHANGED <<pc, eof, req, wr, store, crashed, log>>

ClientClose(c) ==
    /\ Blocked(c)
    /\ eof' = [eof EXCEPT ![c] = TRUE]
    /\ UNCHANGED <<pc, input, nsent, req, wr, store, crashed, log>>

----------------------------------------------------------------------------

Next ==
    \E c \in Conns :
        \/ Accept(c)
        \/ ClientSend(c)
        \/ ClientClose(c)
        \/ RunReadError(c)
        \/ RunReadPanic(c)
        \/ RunSkip(c)
        \/ RunServe(c)
        \/ ServeGet(c)
        \/ GetKey(c)
        \/ ServeSet(c)
        \/ ServeDel(c)
        \/ ServeVersion(c)
        \/ ServeQuit(c)
        \/ ServeUnknown(c)

Spec == Init /\ [][Next]_vars

\* The socket of c stops taking bytes (the peer is gone, or has reset the
\* connection): from now on conn.Write fails.  Reads are ClientClose's matter.
WriteBreaks(c) ==
    /\ ~crashed
    /\ pc[c] \in {"read", "serve", "keys"}
    /\ ~wr[c].down
    /\ wr' = [wr EXCEPT ![c].down = TRUE]
    /\ UNCHANGED <<pc, input, eof, nsent, req, store, crashed, log>>

NextIO == Next \/ \E c \in Conns : WriteBreaks(c)

\* one client, and writes that may fail
SpecIO == Init /\ [][NextIO]_vars

\* a step of the goroutine of c
Loop(c) ==
    \/ RunReadError(c) \/ RunReadPanic(c) \/ RunSkip(c) \/ RunServe(c)
    \/ ServeGet(c) \/ GetKey(c) \/ ServeSet(c) \/ ServeDel(c)
    \/ ServeVersion(c) \/ ServeQuit(c) \/ ServeUnknown(c)

\* the goroutine of c can take a step: it is in its loop and not blocked in a
\* read.  This is ENABLED <<Loop(c)>>_vars, written out.
Runnable(c) == ~crashed /\ pc[c] \in {"read", "serve", "keys"} /\ ~Blocked(c)

\* weak fairness of Loop(c), that is WF_vars(Loop(c)) with Runnable(c) for
\* the enabling condition: the scheduler does not starve a goroutine that
\* can run, and the calls of the Store return
Fair(c) == []<>(~Runnable(c)) \/ []<><<Loop(c)>>_vars

\* one client, on the second connection
InitLive == InitWith({2})

\* writes that may fail, and goroutines that run when they can
SpecLive == InitLive /\ [][NextIO]_vars /\ \A c \in Conns : Fair(c)

\* two clients at once
InitMulti == InitWith({1, 2})

SpecMulti == InitMulti /\ [][Next]_vars

----------------------------------------------------------------------------
(* Properties.  They are stated on the history: what was on the wire in and *)
(* out, and what the Store was asked.                                       *)

\* the iteration of entry e is over
Finished(e) == e.exit # "serving"

\* all the bytes written in the iteration of e
Written(e) == Cat(e.out)

\* the token is the decimal numeral of n
Declares(tok, n) == Str(tok) = ToString(n)

\* the bytes without the last two
Payload(bs) == SubSeq(bs, 1, Len(bs) - 2)

\* the bytes end in "\r\n"
EndsInEol(bs) == Len(bs) >= 2 /\ bs[Len(bs) - 1] = CR /\ bs[Len(bs)] = LF

\* a VALUE block as the protocol writes it
ValueBlock(key, body) ==
    "VALUE " \o Str(key) \o " 0 " \o ToString(Len(body)) \o " 0\r\n" \o Str(body) \o "\r\n"

\* e is "set key 0 0 N" with N a plain numeral, answered STORED
StoredSet(e) ==
    /\ e.Command = cmdSet
    /\ Len(e.Args) = 4
    /\ e.Args[2] = zero /\ e.Args[3] = zero
    /\ \E n \in 0..9 : Declares(e.Args[4], n)
    /\ e.out = <<"STORED\r\n">>

\* g is "get key" for the key of s and the Store did not fail
GetOf(g, s) ==
    /\ g.Command = cmdGet
    /\ g.Args = <<s.Args[1]>>
    /\ Finished(g)
    /\ \A i \in 1..Len(g.calls) : g.calls[i].err # ErrOther

\* C1: on one connection, after "set key 0 0 N\r\n<N bytes>\r\n" was
\* answered STORED, the N bytes after the line were consumed as the body (and
\* so were never read as a request line), they are what the Store was given,
\* and a "get key" that follows writes "VALUE key 0 N 0\r\n<the same N
\* bytes>\r\nEND\r\n" and nothing else.
C1_RoundTrip ==
    \A c \in Conns :
        /\ \A i \in 1..Len(log[c]) :
             LET s == log[c][i]
             IN  StoredSet(s) =>
                   /\ EndsInEol(s.taken)
                   /\ Declares(s.Args[4], Len(Payload(s.taken)))
                   /\ Len(s.calls) = 1
                   /\ s.calls[1].op = "Set" /\ s.calls[1].err = ""
                   /\ s.calls[1].key = s.Args[1]
                   /\ s.calls[1].value = Payload(s.taken)
        /\ Len(log[c]) = 2 /\ StoredSet(log[c][1]) /\ GetOf(log[c][2], log[c][1]) =>
             LET s == log[c][1]
                 g == log[c][2]
             IN  /\ g.line = cmdGet \o <<SP>> \o s.Args[1] \o eol
                 /\ Written(g) = ValueBlock(s.Args[1], Payload(s.taken)) \o "END\r\n"

\* C1 happens: the body "a \r\nquit" was stored and read back
C1_Witness ==
    \E c \in Conns :
        /\ Len(log[c]) = 2 /\ StoredSet(log[c][1]) /\ GetOf(log[c][2], log[c][1])
        /\ log[c][1].taken = bodyTricky \o eol
        /\ Written(log[c][2]) = "VALUE k 0 8 0\r\na \r\nquit\r\nEND\r\n"

\* a line that ends in '\n' and not in "\r\n"
BadLine(line) == line # <<>> /\ line[Len(line)] = LF /\ ~EndsInEol(line)

\* C2: a line that ends in '\n' but not in "\r\n" (the line "\n" alone too) ends
\* the loop and closes the connection: nothing is written for it, neither the
\* dispatcher nor the Store is called, and no line is read after it.
C2_BadEolCloses ==
    \A c \in Conns : \A i \in 1..Len(log[c]) :
        LET e == log[c][i]
        IN  BadLine(e.line) =>
              /\ i = Len(log[c])
              /\ pc[c] = "closed"
              /\ e.exit \in {"close", "panic"}
              /\ e.out = <<>> /\ wr[c].buf = ""
              /\ e.calls = <<>> /\ ~e.bodyRead
              /\ req[c] = NoRequest

\* C2 happens: "get k\n" closed the connection with a request still unread
C2_Witness ==
    \E c \in Conns :
        /\ log[c] # <<>>
        /\ Last(log[c]).line = cmdGet \o <<SP>> \o keyK \o <<LF>>
        /\ pc[c] = "closed"
        /\ input[c] = cmdGet \o <<SP>> \o keyK \o eol


StorageCommands == {cmdSet, cmdAdd, cmdReplace}

\* the SetMode the protocol names with the command
ExpectedMode(cmd) == CASE cmd = cmdSet -> 0 [] cmd = cmdAdd -> 1 [] cmd = cmdReplace -> 2

\* the token is a length of n bytes: a numeral, with a plus sign or without
DeclaresLen(tok, n) == Str(tok) = ToString(n) \/ Str(tok) = "+" \o ToString(n)

\* e is a finished storage request with at least 4 arguments, whose 4th is a
\* length and whose body block was read: as many bytes as declared, then eol
FramedStore(e) ==
    /\ Finished(e)
    /\ e.Command \in StorageCommands
    /\ Len(e.Args) >= 4
    /\ e.bodyRead
    /\ EndsInEol(e.taken)
    /\ \E n \in 0..9 : DeclaresLen(e.Args[4], n) /\ n = Len(Payload(e.taken))

\* the client asked for silence on a storage request
AsksNoReply(e) == Len(e.Args) = 5 /\ e.Args[5] = noreplyTok

\* the loop of c went on after its iteration i
WentOn(c, i) ==
    /\ log[c][i].exit = "continue"
    /\ i = Len(log[c]) => pc[c] = "read" /\ wr[c].buf = ""

\* the one call Set(arg0, body, mode) of the storage request e
OneSet(e) ==
    /\ Len(e.calls) = 1
    /\ e.calls[1].op = "Set"
    /\ e.calls[1].key = e.Args[1]
    /\ e.calls[1].value = Payload(e.taken)
    /\ e.calls[1].mode = ExpectedMode(e.Command)

\* C3: a storage request with noreply as its 5th argument and a framed body
\* writes nothing whatever the Store returns, calls Set once with (arg0, body,
\* mode), and the loop goes on: a "get" of the key that follows writes the
\* value the Store took.
C3_NoReplySilent ==
    \A c \in Conns :
        /\ \A i \in 1..Len(log[c]) :
             LET e == log[c][i]
             IN  FramedStore(e) /\ AsksNoReply(e) =>
                   /\ e.out = <<>>
                   /\ OneSet(e)
                   /\ WentOn(c, i)
        /\ /\ Len(log[c]) = 2
           /\ FramedStore(log[c][1]) /\ AsksNoReply(log[c][1])
           /\ log[c][1].calls # <<>> /\ log[c][1].calls[1].err = ""
           /\ GetOf(log[c][2], log[c][1])
           => Written(log[c][2]) =
                ValueBlock(log[c][1].Args[1], Payload(log[c][1].taken)) \o "END\r\n"

\* C3 happens: "set k 0 0 3 noreply" with "abc" wrote nothing and "get k" found it
C3_Witness ==
    \E c \in Conns :
        /\ Len(log[c]) = 2
        /\ log[c][1].line = cmdSet \o <<SP>> \o keyK \o <<SP, "0", SP, "0", SP, "3", SP>>
                               \o noreplyTok \o eol
        /\ log[c][1].out = <<>>
        /\ log[c][1].calls # <<>>
        /\ Written(log[c][2]) = "VALUE k 0 3 0\r\nabc\r\nEND\r\n"

\* e is a finished request with too few arguments for its command
TooFewArgs(e) ==
    /\ Finished(e)
    /\ \/ e.Command \in StorageCommands /\ Len(e.Args) < 4
       \/ e.Command = cmdDel /\ Len(e.Args) = 0

\* C4: a storage request with fewer than 4 arguments and a del without
\* arguments are answered "CLIENT_ERROR invalid command format\r\n", a noreply
\* among the tokens or not; no body is read, the Store is not called and the
\* loop goes on.
C4_ArgCountError ==
    \A c \in Conns : \A i \in 1..Len(log[c]) :
        LET e == log[c][i]
        IN  TooFewArgs(e) =>
              /\ e.out = <<"CLIENT_ERROR invalid command format\r\n">>
              /\ ~e.bodyRead /\ e.taken = <<>>
              /\ e.calls = <<>>
              /\ WentOn(c, i)

\* C4 happens: "set k 0 noreply" was answered, and the "replace" after it too
C4_Witness ==
    \E c \in Conns :
        /\ Len(log[c]) = 2
        /\ TooFewArgs(log[c][1]) /\ log[c][1].Args = <<keyK, zero, noreplyTok>>
        /\ TooFewArgs(log[c][2]) /\ log[c][2].Command = cmdReplace
        /\ log[c][2].out # <<>>

DigitSet == {"0", "1", "2", "3", "4", "5", "6", "7", "8", "9"}

Numeral(ds) == ds # <<>> /\ \A i \in 1..Len(ds) : ds[i] \in DigitSet

\* the token is no number, or a number below zero
BadLength(tok) ==
    IF tok # <<>> /\ tok[1] = "-"
    THEN ~Numeral(Tail(tok)) \/ \E i \in 2..Len(tok) : tok[i] # "0"
    ELSE IF tok # <<>> /\ tok[1] = "+" THEN ~Numeral(Tail(tok))
    ELSE ~Numeral(tok)

\* e is a finished storage request whose 4th argument is no length
BadLengthStore(e) ==
    /\ Finished(e)
    /\ e.Command \in StorageCommands
    /\ Len(e.Args) >= 4
    /\ BadLength(e.Args[4])

\* C5: a storage request with at least 4 arguments whose 4th is not a number
\* or is negative is answered "CLIENT_ERROR invalid data length\r\n", and with
\* nothing under noreply; no byte after the line is consumed, Set is not
\* called, and the loop goes on with the next line.
C5_BadLength ==
    \A c \in Conns : \A i \in 1..Len(log[c]) :
        LET e == log[c][i]
        IN  BadLengthStore(e) =>
              /\ e.out = IF AsksNoReply(e) THEN <<>>
                         ELSE <<"CLIENT_ERROR invalid data length\r\n">>
              /\ ~e.bodyRead /\ e.taken = <<>>
              /\ e.calls = <<>>
              /\ WentOn(c, i)

\* C5 happens: "set k 0 0 -1" was answered, and the line after it was read as a
\* request (one with a bad length and noreply, which wrote nothing)
C5_Witness ==
    \E c \in Conns :
        /\ Len(log[c]) = 2
        /\ BadLengthStore(log[c][1]) /\ log[c][1].Args[4] = <<"-", "1">>
        /\ log[c][1].out = <<"CLIENT_ERROR invalid data length\r\n">>
        /\ BadLengthStore(log[c][2]) /\ AsksNoReply(log[c][2])
        /\ log[c][2].line = cmdAdd \o <<SP>> \o keyK \o <<SP, "0", SP, "0", SP, "x", "1", SP>>
                               \o noreplyTok \o eol


\* the VALUE blocks of the calls of Get that returned a value, in their order
RECURSIVE Blocks(_)
Blocks(calls) ==
    IF calls = <<>> THEN ""
    ELSE (IF Head(calls).err = "" THEN ValueBlock(Head(calls).key, Head(calls).data) ELSE "")
         \o Blocks(Tail(calls))

\* e is a finished retrieval with keys to which the Store answered with values
\* and ErrNotFound only
Retrieved(e, cmd) ==
    /\ Finished(e)
    /\ e.Command = cmd
    /\ Len(e.Args) >= 1
    /\ \A j \in 1..Len(e.calls) : e.calls[j].err \in {"", ErrNotFound}

\* C6: "gets k1 ... kn" to which the Store answers with values and NotFound
\* only calls Get once per key in the order of the request, and writes a VALUE
\* block for each key found, in that order, duplicates too, nothing for the
\* others, and then one "END\r\n".
C6_GetsAllKeys ==
    \A c \in Conns : \A i \in 1..Len(log[c]) :
        LET e == log[c][i]
        IN  Retrieved(e, cmdGets) =>
              /\ Len(e.calls) = Len(e.Args)
              /\ \A j \in 1..Len(e.Args) :
                   e.calls[j].op = "Get" /\ e.calls[j].key = e.Args[j]
              /\ Written(e) = Blocks(e.calls) \o "END\r\n"
              /\ Last(e.out) = "END\r\n"
              /\ WentOn(c, i)

\* C6 happens: "gets a k" found both keys and wrote them in that order
C6_Witness ==
    \E c \in Conns :
        /\ log[c] # <<>>
        /\ Last(log[c]).Command = cmdGets
        /\ Last(log[c]).Args = <<keyA, keyK>>
        /\ Len(Last(log[c]).calls) = 2
        /\ Written(Last(log[c])) = "VALUE a 0 1 0\r\nx\r\nVALUE k 0 3 0\r\nabc\r\nEND\r\n"

\* C7: "get" with one key or more calls Get once, with the first key, and
\* writes what that call gives: the VALUE block of the first key and END, END
\* alone, or the failure of the Store; the other keys cause no call, no block
\* and no error.
C7_GetFirstKeyOnly ==
    \A c \in Conns : \A i \in 1..Len(log[c]) :
        LET e == log[c][i]
        IN  Finished(e) /\ e.Command = cmdGet /\ Len(e.Args) >= 1 =>
              /\ Len(e.calls) = 1
              /\ e.calls[1].op = "Get" /\ e.calls[1].key = e.Args[1]
              /\ Written(e) =
                   IF e.calls[1].err = ""
                   THEN ValueBlock(e.Args[1], e.calls[1].data) \o "END\r\n"
                   ELSE IF e.calls[1].err = ErrNotFound THEN "END\r\n"
                   ELSE "SERVER_ERROR " \o e.calls[1].err \o "\r\n"
              /\ WentOn(c, i)

\* C7 happens: "get k a" with a in the Store and k not wrote END alone
C7_Witness ==
    \E c \in Conns :
        /\ log[c] # <<>>
        /\ Last(log[c]).Command = cmdGet
        /\ Last(log[c]).Args = <<keyK, keyA>>
        /\ keyA \in DOMAIN store /\ keyK \notin DOMAIN store
        /\ Last(log[c]).out = <<"END\r\n">>

\* the status line the protocol gives for what Set returned
ExpectedStatus(err) ==
    IF err = "" THEN "STORED\r\n"
    ELSE IF err \in {"NOT_STORED", "NOT_FOUND", "EXISTS"} THEN err \o "\r\n"
    ELSE "SERVER_ERROR " \o err \o "\r\n"

\* C8: a storage request with a valid header and body and without noreply calls
\* Set once with (arg0, body, the mode of its command) and writes one status
\* line: NOT_STORED, NOT_FOUND or EXISTS as the Store says, SERVER_ERROR and
\* the message for another error, STORED else; the loop goes on.
C8_StoreStatus ==
    \A c \in Conns : \A i \in 1..Len(log[c]) :
        LET e == log[c][i]
        IN  FramedStore(e) /\ ~AsksNoReply(e) =>
              /\ OneSet(e)
              /\ e.out = <<ExpectedStatus(e.calls[1].err)>>
              /\ WentOn(c, i)

\* C8 happens: "replace" was answered NOT_STORED and the request after it served
C8_Witness ==
    \E c \in Conns :
        /\ Len(log[c]) = 2
        /\ log[c][1].Command = cmdReplace
        /\ log[c][1].out = <<"NOT_STORED\r\n">>
        /\ log[c][1].calls[1].mode = 2
        /\ Finished(log[c][2]) /\ log[c][2].out # <<>>

\* C9: "quit", with arguments or without, writes nothing and calls no Store;
\* the connection is closed and no line after it is read.
C9_QuitCloses ==
    \A c \in Conns : \A i \in 1..Len(log[c]) :
        LET e == log[c][i]
        IN  Finished(e) /\ e.Command = cmdQuit =>
              /\ e.out = <<>> /\ wr[c].buf = ""
              /\ e.calls = <<>> /\ ~e.bodyRead
              /\ e.exit = "close"
              /\ i = Len(log[c])
              /\ pc[c] = "closed"

\* C9 happens: "quit" closed the connection with "get k" unread behind it
C9_Witness ==
    \E c \in Conns :
        /\ log[c] # <<>>
        /\ Last(log[c]).Command = cmdQuit /\ Last(log[c]).Args = <<>>
        /\ pc[c] = "closed"
        /\ input[c] = cmdGet \o <<SP>> \o keyK \o eol

\* the commands of the protocol
Known == {"get", "gets", "set", "add", "replace", "del", "version", "quit"}

\* C10: a request whose command is not empty and none of get, gets, set, add,
\* replace, del, version, quit, letter case counting, is answered "ERROR\r\n";
\* no Store is called, no body read, and the loop goes on.
C10_UnknownCommand ==
    \A c \in Conns : \A i \in 1..Len(log[c]) :
        LET e == log[c][i]
        IN  Finished(e) /\ e.kind = "ok" /\ e.Command # <<>> /\ Str(e.Command) \notin Known =>
              /\ e.out = <<"ERROR\r\n">>
              /\ e.calls = <<>>
              /\ ~e.bodyRead /\ e.taken = <<>>
              /\ WentOn(c, i)

\* C10 happens: "GET k" was answered ERROR and the "version" after it served
C10_Witness ==
    \E c \in Conns :
        /\ Len(log[c]) = 2
        /\ log[c][1].Command = <<"G", "E", "T">>
        /\ log[c][1].out = <<"ERROR\r\n">>
        /\ log[c][2].Command = cmdVersion
        /\ log[c][2].out # <<>>

\* e is a request the handler has answered or chosen not to answer
Answered(e) == e.exit = "continue" /\ e.kind = "ok" /\ e.Command # <<>>

\* e is a storage request with its 4 arguments, or a del with its key
Shaped(e) ==
    \/ e.Command \in StorageCommands /\ Len(e.Args) >= 4
    \/ e.Command = cmdDel /\ Len(e.Args) >= 1

\* the place of noreply among the arguments of e
NoReplyAt(e) == IF e.Command = cmdDel THEN 2 ELSE 5

\* C11 as stated: a storage request with at least 4 arguments writes nothing
\* if and only if its 5th argument is "noreply", a del with at least 1
\* argument if and only if its 2nd is, however many arguments follow.
C11_AnyArgCount ==
    \A c \in Conns : \A i \in 1..Len(log[c]) :
        LET e == log[c][i]
        IN  Answered(e) /\ Shaped(e) =>
              (e.out = <<>> <=>
                 Len(e.Args) >= NoReplyAt(e) /\ e.Args[NoReplyAt(e)] = noreplyTok)

\* C11, amended: a storage request with at least 4 arguments writes nothing if
\* and only if it has exactly 5 arguments and the 5th is "noreply"; a del
\* with at least 1 argument if and only if it has exactly 2 and the 2nd is
\* "noreply".  With more arguments the response is written.
C11_NoReplyIsLast ==
    \A c \in Conns : \A i \in 1..Len(log[c]) :
        LET e == log[c][i]
        IN  Answered(e) /\ Shaped(e) =>
              (e.out = <<>> <=>
                 Len(e.Args) = NoReplyAt(e) /\ e.Args[NoReplyAt(e)] = noreplyTok)

\* C11 happens: "set k 0 0 3 noreply x" stored its body and was answered
C11_Witness ==
    \E c \in Conns :
        /\ log[c] # <<>>
        /\ Last(log[c]).Command = cmdSet
        /\ Last(log[c]).Args = <<keyK, zero, zero, <<"3">>, noreplyTok, <<"x">>>>
        /\ Last(log[c]).taken = bodyAbc \o eol
        /\ Last(log[c]).out = <<"STORED\r\n">>

\* e is a finished storage request with a length in its 4th argument, after
\* whose line the stream held the declared bytes and two more that are not eol
BadFrame(e) ==
    /\ Finished(e)
    /\ e.Command \in StorageCommands
    /\ Len(e.Args) >= 4
    /\ e.bodyRead
    /\ ~EndsInEol(e.taken)
    /\ \E n \in 0..9 : DeclaresLen(e.Args[4], n) /\ Len(e.taken) >= n + 2

\* the chunk is a response of the CLIENT_ERROR class
IsClientError(chunk) == Len(chunk) >= 13 /\ SubSeq(chunk, 1, 13) = "CLIENT_ERROR "

\* C12: a storage request with a valid header whose body block does not end in
\* "\r\n" at the declared length is answered, when it is answered, with one
\* response of the CLIENT_ERROR class.
C12_FramingIsClientError ==
    \A c \in Conns : \A i \in 1..Len(log[c]) :
        LET e == log[c][i]
        IN  BadFrame(e) /\ ~AsksNoReply(e) =>
              Len(e.out) = 1 /\ IsClientError(e.out[1])

\* the loop of c is running: accepted, and not ended
InLoop(c) == pc[c] \in {"read", "serve", "keys"}

\* the loop of c has ended by what c itself read or dispatched
EndedByItself(c) ==
    /\ log[c] # <<>>
    /\ Last(log[c]).exit \in {"close", "panic", "fatal"}

\* C13: whatever the other connections do, a connection whose loop has not
\* ended is served by a running process, and a loop that has ended has ended
\* by an iteration of its own.
C13_Independent ==
    \A c \in Conns :
        /\ InLoop(c) => ~crashed
        /\ pc[c] \in {"closed", "killed"} => EndedByItself(c)

\* the iteration of e ended the loop
EndedLoop(e) == e.exit \in {"close", "panic", "fatal"}

\* reading the line of e failed: the stream ended or the line has no "\r\n"
LineReadFailed(e) == e.line = <<>> \/ ~EndsInEol(e.line)

\* the line of e is a request and its command is "quit"
IsQuit(e) == EndsInEol(e.line) /\ e.Command = cmdQuit

\* C14: an iteration ends the loop only if reading its line failed or it
\* dispatched "quit"; after every other iteration, whatever the Store
\* returned, whatever the shape of the request, whether the body could be
\* read and whether the response could be written, the loop reads the next
\* line.
C14_ExitCauses ==
    \A c \in Conns : \A i \in 1..Len(log[c]) :
        LET e == log[c][i]
        IN  /\ EndedLoop(e) => LineReadFailed(e) \/ IsQuit(e)
            /\ Finished(e) /\ ~LineReadFailed(e) /\ ~IsQuit(e) =>
                  /\ e.exit = "continue"
                  /\ i = Len(log[c]) => pc[c] = "read"

\* the chunk handed to the socket ends in "\r\n"
ChunkEndsInEol(chunk) ==
    Len(chunk) >= 2 /\ SubSeq(chunk, Len(chunk) - 1, Len(chunk)) = "\r\n"

\* C15: whenever a connection is about to read a request line, and between
\* two response operations of one request, its write buffer is empty: every
\* response operation has handed its bytes, ending in "\r\n", to the stream
\* before it returned.
C15_Alternation ==
    \A c \in Conns :
        /\ pc[c] \in {"read", "keys"} => wr[c].buf = ""
        /\ \A i \in 1..Len(log[c]) : \A j \in 1..Len(log[c][i].out) :
             ChunkEndsInEol(log[c][i].out[j])

\* In this step the handler of c, serving a storage request that declares n
\* bytes, got from ReadBody a stream whose bytes n+1 and n+2 are not eol
BadFrameStep(c, n) ==
    /\ pc[c] = "serve" /\ pc'[c] # "serve"
    /\ Last(log[c]).Command \in StorageCommands
    /\ Len(Last(log[c]).Args) >= 4
    /\ DeclaresLen(Last(log[c]).Args[4], n)
    /\ Len(input[c]) >= n + 2
    /\ <<input[c][n + 1], input[c][n + 2]>> # <<CR, LF>>

\* C16: when the header of a storage request is valid and the two bytes after
\* the L declared bytes are not "\r\n", the handler consumes exactly these
\* L+2 bytes, writes "SERVER_ERROR invalid EOL (must be '\r\n'" and "\r\n", or
\* nothing under noreply, does not call the Store, and the loop reads its next
\* line from the byte after the L+2.
C16_BadFrame ==
    [][\A c \in Conns : \A n \in 0..9 :
         BadFrameStep(c, n) =>
           LET e == Last(log'[c])
           IN  /\ e.bodyRead
               /\ e.taken = SubSeq(input[c], 1, n + 2)
               /\ input'[c] = SubSeq(input[c], n + 3, Len(input[c]))
               /\ e.out = IF AsksNoReply(e) THEN <<>>
                          ELSE <<"SERVER_ERROR invalid EOL (must be '\\r\\n'\r\n">>
               /\ wr'[c].buf = ""
               /\ e.calls = <<>> /\ store' = store
               /\ e.exit = "continue" /\ pc'[c] = "read"]_vars

\* C16 happens: "set k 0 0 1" followed by "abc\r\n" took "abc", answered
\* SERVER_ERROR, and the "\r\n" left over was read as the next line
C16_Witness ==
    \E c \in Conns :
        /\ Len(log[c]) = 2
        /\ log[c][1].Args = <<keyK, zero, zero, <<"1">>>>
        /\ log[c][1].taken = bodyAbc
        /\ log[c][1].out # <<>> /\ log[c][1].calls = <<>>
        /\ log[c][2].line = eol
        /\ pc[c] = "read"

\* the keys a retrieval asks the Store for: the first for get, all for gets
AskedKeys(e) == IF e.Command = cmdGet THEN <<e.Args[1]>> ELSE e.Args

\* the calls of e that the Store answered with an error other than NotFound
HardErrors(e) == {j \in 1..Len(e.calls) : e.calls[j].err \notin {"", "NOT_FOUND"}}

\* the number of calls of e that returned a value
Found(e) == Cardinality({j \in 1..Len(e.calls) : e.calls[j].err = ""})

\* C17: a get or gets asks the Store for its keys in order and stops at the
\* first error that is not NotFound: the VALUE blocks of the keys found before
\* it are on the wire, one "SERVER_ERROR <msg>\r\n" follows them, no later
\* key is asked for and no "END\r\n" is written.  "END\r\n" ends the
\* response exactly when no call failed.  The loop goes on in both cases.
C17_HardError ==
    \A c \in Conns : \A i \in 1..Len(log[c]) :
        LET e == log[c][i]
        IN  Finished(e) /\ e.Command \in {cmdGet, cmdGets} /\ Len(e.Args) >= 1 =>
              /\ Len(e.calls) \in 1..Len(AskedKeys(e))
              /\ \A j \in 1..Len(e.calls) :
                   e.calls[j].op = "Get" /\ e.calls[j].key = AskedKeys(e)[j]
              /\ HardErrors(e) \subseteq {Len(e.calls)}
              /\ Len(e.out) = Found(e) + 1
              /\ IF HardErrors(e) = {}
                 THEN /\ Len(e.calls) = Len(AskedKeys(e))
                      /\ Written(e) = Blocks(e.calls) \o "END\r\n"
                      /\ Last(e.out) = "END\r\n"
                 ELSE /\ Written(e) = Blocks(e.calls) \o "SERVER_ERROR "
                                        \o Last(e.calls).err \o "\r\n"
                      /\ Last(e.out) # "END\r\n"
              /\ WentOn(c, i)

\* C17 happens: "gets a k" wrote the value of a, the Store failed on k, and
\* the response ended with SERVER_ERROR
C17_Witness ==
    \E c \in Conns :
        /\ log[c] # <<>>
        /\ Last(log[c]).Args = <<keyA, keyK>>
        /\ Last(log[c]).out = <<"VALUE a 0 1 0\r\nx\r\n", "SERVER_ERROR store failure\r\n">>
        /\ pc[c] = "read"

\* the tokens, with one space between every two of them
RECURSIVE Spaced(_)
Spaced(toks) ==
    IF Len(toks) = 1 THEN toks[1] ELSE toks[1] \o <<SP>> \o Spaced(Tail(toks))

\* no space inside a token
Spaceless(toks) == \A j \in 1..Len(toks) : \A k \in 1..Len(toks[j]) : toks[j][k] # SP

\* in this step the loop of c has read a line that ends in "\r\n"
LineStep(c) ==
    /\ pc[c] = "read"
    /\ log'[c] # log[c]
    /\ EndsInEol(Last(log'[c]).line)

\* C18: the handler never runs with an empty command.  A line "...\r\n" that
\* is empty or begins with a space is skipped: nothing is written, the Store
\* is not called and the loop is at its next read.  Any other line is given to
\* the handler, with the command and the arguments that, joined by single
\* spaces, are the line: an empty token between two spaces that follow each
\* other and after a space at the end.
C18_NoEmptyCommand ==
    /\ [](\A c \in Conns : pc[c] \in {"serve", "keys"} => req[c].Command # <<>>)
    /\ [][\A c \in Conns :
            LineStep(c) =>
              LET e    == Last(log'[c])
                  text == Payload(e.line)
              IN  /\ input[c] = e.line \o input'[c]
                  /\ \A k \in 1..Len(text) : text[k] # LF
                  /\ IF text = <<>> \/ text[1] = SP
                     THEN /\ pc'[c] = "read" /\ e.exit = "continue"
                          /\ req'[c] = NoRequest
                          /\ e.out = <<>> /\ wr'[c].buf = wr[c].buf
                          /\ e.calls = <<>> /\ store' = store
                     ELSE /\ pc'[c] = "serve" /\ e.exit = "serving"
                          /\ req'[c].Command = e.Command /\ req'[c].Args = e.Args
                          /\ Spaced(<<e.Command>> \o e.Args) = text
                          /\ Spaceless(<<e.Command>> \o e.Args)
                          /\ e.out = <<>> /\ e.calls = <<>> /\ store' = store]_vars

\* C18 happens: " get k" was skipped and "get  k" after it was served as get
\* with the arguments "" and "k"
C18_Witness ==
    \E c \in Conns :
        /\ Len(log[c]) = 2
        /\ log[c][1].line = <<SP>> \o cmdGet \o <<SP>> \o keyK \o eol
        /\ log[c][1].exit = "continue" /\ log[c][1].out = <<>>
        /\ log[c][2].Command = cmdGet /\ log[c][2].Args = <<<<>>, keyK>>
        /\ log[c][2].calls # <<>>

\* the loop of c is over: Close has been called, or the process is gone
Exited(c) == pc[c] \in {"closed", "killed"}

\* C19: a loop that ends by a break (a line that could not be read, quit) or
\* by a panic leaves its connection closed; once the loop is over nothing is
\* read or written on the connection and no call of the Store is made for
\* it; and a loop whose stream has ended does end.
C19_ClosedOnExit ==
    /\ [](\A c \in Conns :
            /\ log[c] # <<>> /\ Last(log[c]).exit \in {"close", "panic"} => pc[c] = "closed"
            /\ log[c] # <<>> /\ Last(log[c]).exit = "fatal" => crashed
            /\ ~InLoop(c) /\ pc[c] \notin {"idle", "pending"} => Exited(c))
    /\ [][\A c \in Conns :
            Exited(c) =>
              /\ pc'[c] = pc[c] /\ log'[c] = log[c]
              /\ wr'[c] = wr[c] /\ input'[c] = input[c]
              /\ store' = store \/ \E d \in Conns \ {c} : log'[d] # log[d]]_vars
    /\ \A c \in Conns : eof[c] ~> Exited(c)

\* C19 happens: the loop ended by a panic in the middle of a request, with a
\* request behind it, and its connection is closed
C19_Witness ==
    \E c \in Conns :
        /\ Len(log[c]) = 2
        /\ pc[c] = "closed"
        /\ Last(log[c]).exit = "panic"
        /\ Last(log[c]).bodyRead

\* e is a finished iteration that is no request, or a request that is
\* rejected or has nothing to ask of the Store
NoStorageMeaning(e) ==
    /\ Finished(e)
    /\ \/ ~EndsInEol(e.line)
       \/ e.Command = <<>>
       \/ Str(e.Command) \notin Known
       \/ e.Command \in {cmdVersion, cmdQuit}
       \/ e.Command \in {cmdGet, cmdGets, cmdDel} /\ Len(e.Args) = 0
       \/ e.Command \in StorageCommands /\ Len(e.Args) < 4
       \/ e.Command \in StorageCommands /\ Len(e.Args) >= 4 /\ BadLength(e.Args[4])
       \/ e.Command \in StorageCommands /\ e.bodyRead /\ ~EndsInEol(e.taken)

\* C20: an iteration that reads no request, skips an empty line or serves a
\* request that is rejected or has no storage meaning (get or gets without a
\* key, which is answered "CLIENT_ERROR key required"; a storage request with
\* fewer than 4 arguments, a bad length or a body that could not be read; del
\* without arguments; version; quit; an unknown command) makes no call of the
\* Store.  get and gets call Get only.  An accepted storage request makes one
\* call, Set on arg0, and a del with a key one call, Del on arg0.  The Store
\* changes only in a step that makes a Set or a Del that succeeds.
C20_StoreFrame ==
    /\ [](\A c \in Conns : \A i \in 1..Len(log[c]) :
            LET e == log[c][i]
            IN  /\ NoStorageMeaning(e) => e.calls = <<>>
                /\ Finished(e) /\ e.Command \in {cmdGet, cmdGets} /\ Len(e.Args) = 0 =>
                      e.out = <<"CLIENT_ERROR key required\r\n">>
                /\ e.Command \in {cmdGet, cmdGets} =>
                      \A j \in 1..Len(e.calls) : e.calls[j].op = "Get"
                /\ FramedStore(e) =>
                      /\ Len(e.calls) = 1
                      /\ e.calls[1].op = "Set" /\ e.calls[1].key = e.Args[1]
                /\ Finished(e) /\ e.Command = cmdDel /\ Len(e.Args) >= 1 =>
                      /\ Len(e.calls) = 1
                      /\ e.calls[1].op = "Del" /\ e.calls[1].key = e.Args[1])
    /\ [][store' # store =>
            \E c \in Conns :
                /\ log'[c] # log[c]
                /\ Last(log'[c]).calls # <<>>
                /\ Last(Last(log'[c]).calls).op \in {"Set", "Del"}
                /\ Last(Last(log'[c]).calls).err = ""]_vars

\* C20 happens: with "abc" stored under k, "set k 0 0 1" followed by
\* "abc\r\n" made no call and left the value as it was
C20_Witness ==
    \E c \in Conns :
        /\ Len(log[c]) = 2
        /\ BadFrame(log[c][1]) /\ log[c][1].Args[1] = keyK
        /\ log[c][1].calls = <<>>
        /\ log[c][2].line = eol
        /\ keyK \in DOMAIN store /\ store[keyK] = bodyAbc

====
